---- MODULE Spec2Model ----
(***************************************************************************)
(* Dew heater controller: the control loop (sensor_loop), the shared       *)
(* ControllerState, the hardware relay pin, the ambient weather cache and  *)
(* the operator handler (POST /api/control).                               *)
(* The live broker (LiveBroker, GET /api/live) and the callers of the      *)
(* weather cache are specified on their own: BrokerSpec and FetcherSpec.   *)
(*                                                                         *)
(* Units: temperatures in tenths of a degree Celsius, humidity in percent, *)
(* time in minutes since the control loop started.                         *)
(* Optional values (Python None) are sequences: <<>> is None, <<x>> is x.  *)
(***************************************************************************)
EXTENDS Integers, Sequences, FiniteSets, TLC

\* ------------------------------------------------------------------ bounds
MaxTime == 105
\* Events published to the live broker.
MaxEvents == 7

\* --------------------------------------------------------------- constants
HYSTERESIS_C == 50
AMBIENT_TEMP_OFFSET_C == 50
FORCE_RUN_TEMP_DIFF_C == 60
FORCE_RUN_DURATION == 30
FORCE_RUN_COOLDOWN == 60
AMBIENT_CACHE_SECONDS == 600
WARMUP_MIN == 15
DAYLIGHT_MARGIN_MIN == 30
\* queue.Queue(maxsize=5) of LiveBroker.subscribe
QUEUE_MAXSIZE == 5
SPIKE_LIMIT == 15
MAGNUS_A == 1727
MAGNUS_B == 2377

None == <<>>
Some(x) == <<x>>
Val(o) == o[1]

\* ------------------------------------------------------------ input domains
\* Minutes the wall clock may have advanced when a poll takes its timestamp.
TickSteps == {0, 15, 30}
\* DHT11 readings: temperature (tenths of a degree) and humidity (percent).
Temps == {100, 150}
Hums == {0, 40, 95}
\* What dht_sensor.read() can return: a failed read, or a valid reading.
NoResult == [valid |-> FALSE, temperature |-> 0, humidity |-> 0]
SensorResults ==
  {NoResult} \cup
  { [valid |-> TRUE, temperature |-> t, humidity |-> h] :
      <<t, h>> \in {x \in Temps \X Hums : x[1] = 100 \/ x[2] = 95} }
\* Snapshots the weather provider can return (AmbientWeatherFetcher._fetch).
Weathers ==
  { [temperature_c |-> 100, dew_point_c |-> 20, sunrise |-> None, sunset |-> None],
    [temperature_c |-> 100, dew_point_c |-> 80, sunrise |-> Some(30), sunset |-> Some(120)] }
\* Connections to GET /api/live; each owns the queue subscribe() returned to it.
Clients == {"c1", "c2"}
\* Threads calling the weather cache (the program's own caller is sensor_loop).
Callers == {"sensor_loop", "other"}
\* Seconds of time.monotonic() that pass in one Tick of the cache's callers.
CacheTick == 300
\* JSON bodies of POST /api/control: "absent" is a missing key.
Payloads ==
  { [mode |-> m, manual_on |-> o] :
      m \in {"absent", "auto", "manual", "bogus"}, o \in {None, Some(TRUE), Some(FALSE)} }

\* ------------------------------------------------------------------- state
VARIABLES
  controller_state,   \* ControllerState fields
  pin,                \* level of RELAY_PIN (TRUE = HIGH)
  gpio_ready,         \* RELAY_PIN is set up as an output
  ambient_fetcher,    \* AmbientWeatherFetcher: last_weather, and fetch_age, the seconds
                      \* of time.monotonic() since last_fetch, capped at the cache TTL
  clock,              \* wall clock, minutes since startup_time
  stop_event,         \* threading.Event of main()
  pc,                 \* position of sensor_loop
  result,             \* result of dht_sensor.read() until the poll has used it
  loop_io,            \* what the latest step of sensor_loop wrote: "gpio" (GPIO.output),
                      \* "log_event", "log_reading", "publish" (live_broker.publish),
                      \* and the LOGGER lines of the sensor read and the spike filter:
                      \* "read_failed", "spike_ignored", "change_persisted"
  last_humidity, humidity_spike_pending,
  temp_c, humidity, dew_c, now_dt,
  mode, relay_on, manual_target, weather,
  run_until, cooldown_until, in_forced_run, cooldown_active,
  hpc,                \* position of the POST /api/control handler
  h_manual_on,        \* its local manual_on
  stale_cycles,       \* observer: completed cycles since pin and relay_on last agreed,
                      \* counted up to 2
  manual_cycles,      \* observer: cycles completed in manual mode since the last POST,
                      \* counted up to 2
  forced_starts,      \* observer: the times at which forced runs were started, in order
  subscribers,        \* LiveBroker._subscribers: the queues, named by their clients
  queues,             \* contents of each client's queue.Queue, oldest first
  cpc,                \* position of each api_live connection
  received,           \* observer: the last event each connection took from its queue
  ppc,                \* position of LiveBroker.publish
  p_list, p_i,        \* its local list `subscribers` and the index of q in it
  data,               \* the event being published (events are numbered from 1)
  published,          \* number of publish calls so far
  configured,         \* AMBIENT_LAT and AMBIENT_LON are both set
  gpc,                \* position of each caller inside get_weather
  g_via,              \* the method each caller entered by
  g_age,              \* seconds since each caller took `now`, capped at the cache TTL
  config_reports      \* observer: per caller, the "not configured" warnings logged,
                      \* counted up to 2

csVars == <<controller_state, pin, gpio_ready>>
loopLocals == <<last_humidity, humidity_spike_pending, temp_c, humidity, dew_c, now_dt,
                mode, relay_on, manual_target, weather,
                run_until, cooldown_until, in_forced_run, cooldown_active>>
cycleLocals == <<temp_c, humidity, dew_c, now_dt, mode, relay_on, manual_target, weather,
                 run_until, cooldown_until, in_forced_run, cooldown_active>>
handlerVars == <<hpc, h_manual_on>>
loopVars == <<pc, result, loop_io, loopLocals, stale_cycles, manual_cycles, forced_starts>>
brokerVars == <<subscribers, queues, cpc, received, ppc, p_list, p_i, data, published>>
callerVars == <<configured, gpc, g_via, g_age, config_reports>>
sideVars == <<brokerVars, callerVars>>
\* Everything but the broker, and everything but the weather cache and its callers.
controlVars == <<csVars, clock, stop_event, loopVars, handlerVars>>
vars == <<controller_state, pin, gpio_ready, ambient_fetcher, clock, stop_event, pc,
          result, loop_io, last_humidity, humidity_spike_pending, temp_c, humidity, dew_c, now_dt,
          mode, relay_on, manual_target, weather,
          run_until, cooldown_until, in_forced_run, cooldown_active,
          hpc, h_manual_on, stale_cycles, manual_cycles, forced_starts,
          subscribers, queues, cpc, received, ppc, p_list, p_i, data, published,
          configured, gpc, g_via, g_age, config_reports>>

\* ------------------------------------------------------------ pure helpers
\* Integer division rounding to nearest (d > 0).
RoundDiv(n, d) == IF n >= 0 THEN (2 * n + d) \div (2 * d) ELSE -((2 * (-n) + d) \div (2 * d))

\* 10^4 * ln(h / 100) for the humidities of Hums.
LnPct(h) == CASE h = 95 -> -513 [] h = 40 -> -9163

\* metrics.dew_point_c: gamma is scaled by 10^4, the result is in tenths.
Gamma(t, h) == RoundDiv(MAGNUS_A * 100 * t, MAGNUS_B + t) + LnPct(h)
dew_point_c(t, h) == RoundDiv(MAGNUS_B * Gamma(t, h), MAGNUS_A * 100 - Gamma(t, h))

\* change_pct = abs(humidity - last_humidity), for last_humidity not None.
change_pct(last, h) == IF h >= Val(last) THEN h - Val(last) ELSE Val(last) - h

\* Mutants of SpikeSkipped: the test of the pending flag is inverted, or left out.
SpikeSkipped_PendingInverted(last, pending, h) ==
  /\ last # None
  /\ change_pct(last, h) > SPIKE_LIMIT
  /\ pending
SpikeSkipped_PendingIgnored(last, pending, h) ==
  /\ last # None
  /\ change_pct(last, h) > SPIKE_LIMIT

\* Spike filter of the loop: TRUE when this reading is skipped.
SpikeSkipped(last, pending, h) ==
  /\ last # None
  /\ change_pct(last, h) > SPIKE_LIMIT
  /\ ~pending

\* The filter accepts a jump because one was already pending ("Humidity change
\* persisted; accepting new baseline").
SpikePersisted(last, pending, h) ==
  /\ last # None
  /\ change_pct(last, h) > SPIKE_LIMIT
  /\ pending

threshold_temp(t) == t - AMBIENT_TEMP_OFFSET_C
ambient_dew_c(w) == IF w # None THEN Some(Val(w).dew_point_c) ELSE None
ambient_temp_c(w) == IF w # None THEN Some(Val(w).temperature_c) ELSE None
\* Mutant of baseline_dew: the enclosure's own dew point is always the baseline.
baseline_dew_Enclosure(w, d) == d
baseline_dew(w, d) == IF ambient_dew_c(w) # None THEN Val(ambient_dew_c(w)) ELSE d
should_turn_on(t, w, d) == threshold_temp(t) < baseline_dew(w, d)
\* Mutant of should_turn_off: the OFF threshold has no hysteresis margin.
should_turn_off_NoHysteresis(t, w, d) == threshold_temp(t) > baseline_dew(w, d)
should_turn_off(t, w, d) == threshold_temp(t) > baseline_dew(w, d) + HYSTERESIS_C
\* runtime = now_dt - startup_time; time is counted from startup_time.
startup_time == 0
auto_ready(n) == n - startup_time >= WARMUP_MIN

daylight_block(w, n) ==
  /\ w # None
  /\ Val(w).sunrise # None
  /\ Val(w).sunset # None
  /\ Val(Val(w).sunrise) <= n
  /\ n <= Val(Val(w).sunset)
  /\ Val(Val(w).sunrise) + DAYLIGHT_MARGIN_MIN <= n
  /\ n <= Val(Val(w).sunset) - DAYLIGHT_MARGIN_MIN

TimerActive(u, n) == u # None /\ n < Val(u)
TimerExpired(u, n) == u # None /\ n >= Val(u)

\* Mutants of can_force_run: the warm-up gate, or the cooldown check, is left out.
can_force_run_NoWarmup(n, w, inrun, cooling) ==
  /\ ~daylight_block(w, n)
  /\ ~inrun
  /\ ~cooling
  /\ ambient_temp_c(w) # None
  /\ ambient_dew_c(w) # None
  /\ Val(ambient_temp_c(w)) - Val(ambient_dew_c(w)) <= FORCE_RUN_TEMP_DIFF_C
can_force_run_NoCooldown(n, w, inrun, cooling) ==
  /\ auto_ready(n)
  /\ ~daylight_block(w, n)
  /\ ~inrun
  /\ ambient_temp_c(w) # None
  /\ ambient_dew_c(w) # None
  /\ Val(ambient_temp_c(w)) - Val(ambient_dew_c(w)) <= FORCE_RUN_TEMP_DIFF_C

can_force_run(n, w, inrun, cooling) ==
  /\ auto_ready(n)
  /\ ~daylight_block(w, n)
  /\ ~inrun
  /\ ~cooling
  /\ ambient_temp_c(w) # None
  /\ ambient_dew_c(w) # None
  /\ Val(ambient_temp_c(w)) - Val(ambient_dew_c(w)) <= FORCE_RUN_TEMP_DIFF_C

ForcedRunUntil(n) == n + FORCE_RUN_DURATION
\* Mutant of ForcedCooldownUntil: the cooldown is counted from now, not from the run's end.
ForcedCooldownUntil_FromNow(u) == u - FORCE_RUN_DURATION + FORCE_RUN_COOLDOWN
ForcedCooldownUntil(u) == u + FORCE_RUN_COOLDOWN

\* Mutants of AutoCommand: an active forced run does not override the hysteresis, or
\* the warm-up / daylight / cooldown gates of the auto ON branch are left out.
AutoCommand_NoForcedRun(r, t, w, d, n, inrun, cooling) ==
  IF should_turn_on(t, w, d) /\ ~r
  THEN (IF daylight_block(w, n) \/ ~auto_ready(n) \/ cooling THEN r ELSE TRUE)
  ELSE IF should_turn_off(t, w, d) /\ r THEN FALSE ELSE r
AutoCommand_NoGates(r, t, w, d, n, inrun, cooling) ==
  IF inrun THEN TRUE
  ELSE IF should_turn_on(t, w, d) /\ ~r THEN TRUE
       ELSE IF should_turn_off(t, w, d) /\ r THEN FALSE ELSE r

\* Mutant of AutoCommand: the warm-up gate also blocks the auto OFF branch.
AutoCommand_WarmupBlocksOff(r, t, w, d, n, inrun, cooling) ==
  IF inrun THEN TRUE
  ELSE IF should_turn_on(t, w, d) /\ ~r
       THEN (IF daylight_block(w, n) \/ ~auto_ready(n) \/ cooling THEN r ELSE TRUE)
       ELSE IF should_turn_off(t, w, d) /\ r /\ auto_ready(n) THEN FALSE ELSE r

\* Mutant of AutoCommand: outside a forced run the cooldown switches the relay off.
AutoCommand_CooldownOff(r, t, w, d, n, inrun, cooling) ==
  IF inrun THEN TRUE
  ELSE IF cooling THEN FALSE
  ELSE IF should_turn_on(t, w, d) /\ ~r
       THEN (IF daylight_block(w, n) \/ ~auto_ready(n) THEN r ELSE TRUE)
       ELSE IF should_turn_off(t, w, d) /\ r THEN FALSE ELSE r

\* Relay state the decision block of a cycle ends with.
AutoCommand(r, t, w, d, n, inrun, cooling) ==
  IF inrun THEN TRUE
  ELSE IF should_turn_on(t, w, d) /\ ~r
       THEN (IF daylight_block(w, n) \/ ~auto_ready(n) \/ cooling THEN r ELSE TRUE)
       ELSE IF should_turn_off(t, w, d) /\ r THEN FALSE ELSE r

\* Mutant of RelayCommand: manual mode falls through to the automatic logic.
RelayCommand_ManualIgnored(m, target, r, t, w, d, n, inrun, cooling) ==
  AutoCommand(r, t, w, d, n, inrun, cooling)
RelayCommand(m, target, r, t, w, d, n, inrun, cooling) ==
  IF m = "manual" THEN target ELSE AutoCommand(r, t, w, d, n, inrun, cooling)

\* The fetcher after the monotonic clock advanced by d minutes.
Aged(f, d) ==
  [f EXCEPT !.fetch_age = IF f.fetch_age + d * 60 >= AMBIENT_CACHE_SECONDS
                          THEN AMBIENT_CACHE_SECONDS ELSE f.fetch_age + d * 60]

\* AmbientWeatherFetcher.get_weather: result and fetcher state after the call.
CacheFresh(f) == f.last_weather # None /\ f.fetch_age < AMBIENT_CACHE_SECONDS
\* Mutant of GetWeatherOutcomes: a failed refresh drops the cached snapshot.
GetWeatherOutcomes_FailureClears(f) ==
  IF CacheFresh(f)
  THEN { [result |-> f.last_weather, fetcher |-> f] }
  ELSE { [result |-> None, fetcher |-> [last_weather |-> None, fetch_age |-> f.fetch_age]] }
       \cup { [result |-> Some(w), fetcher |-> [last_weather |-> Some(w), fetch_age |-> 0]] :
                w \in Weathers }
GetWeatherOutcomes(f) ==
  IF CacheFresh(f)
  THEN { [result |-> f.last_weather, fetcher |-> f] }
  ELSE { [result |-> f.last_weather, fetcher |-> f] }      \* _fetch raised
       \cup { [result |-> Some(w), fetcher |-> [last_weather |-> Some(w), fetch_age |-> 0]] :
                w \in Weathers }

\* ---------------------------------------------------------------- initial
\* State after the module is loaded (LiveBroker(), AmbientWeatherFetcher(), lines 70-71)
\* and sensor_loop has set up the GPIO; the coordinates are left open.
InitProgram ==
  /\ controller_state = [mode |-> "auto", manual_on |-> FALSE, relay_on |-> FALSE,
                         weather |-> None, auto_run_until |-> None,
                         auto_cooldown_until |-> None]
  /\ pin = FALSE
  /\ gpio_ready = TRUE
  /\ ambient_fetcher = [last_weather |-> None, fetch_age |-> AMBIENT_CACHE_SECONDS]
  /\ clock = 0
  /\ stop_event = FALSE
  /\ pc = "loop_head"
  /\ result = NoResult
  /\ loop_io = {}
  /\ last_humidity = None
  /\ humidity_spike_pending = FALSE
  /\ temp_c = 0 /\ humidity = 0 /\ dew_c = 0 /\ now_dt = 0
  /\ mode = "none" /\ relay_on = FALSE /\ manual_target = FALSE /\ weather = None
  /\ run_until = None /\ cooldown_until = None
  /\ in_forced_run = FALSE /\ cooldown_active = FALSE
  /\ hpc = "idle" /\ h_manual_on = FALSE
  /\ stale_cycles = 0 /\ manual_cycles = 0
  /\ forced_starts = <<>>
  /\ subscribers = {}
  /\ queues = [c \in Clients |-> <<>>]
  /\ cpc = [c \in Clients |-> "idle"]
  /\ received = [c \in Clients |-> 0]
  /\ ppc = "idle" /\ p_list = <<>> /\ p_i = 0 /\ data = 0 /\ published = 0
  /\ gpc = [c \in Callers |-> "idle"]
  /\ g_via = [c \in Callers |-> "none"]
  /\ g_age = [c \in Callers |-> 0]
  /\ config_reports = [c \in Callers |-> 0]

Init == InitProgram /\ configured = TRUE

\* -------------------------------------------------------------- observers
\* A set_relay call has written the pin and not yet recorded it.
SetRelayInFlight == pc \in {"update_relay", "finally_update"} \/ hpc = "h_update_relay"
Diverged == pin # controller_state.relay_on /\ ~SetRelayInFlight

\* forced_starts after a step: a forced run is started by the step that stores a new
\* auto_run_until (start_forced_run), at the cycle's now_dt.
ForcedStartsAfter ==
  IF /\ controller_state'.auto_run_until # None
     /\ controller_state'.auto_run_until # controller_state.auto_run_until
  THEN Append(forced_starts, now_dt')
  ELSE forced_starts

\* stale_cycles and forced_starts after a step; cycleEnds is TRUE for the step that
\* completes a cycle.
Observe(cycleEnds) ==
  /\ stale_cycles' = IF ~Diverged' THEN 0
                     ELSE IF cycleEnds /\ stale_cycles < 2 THEN stale_cycles + 1
                     ELSE stale_cycles
  /\ forced_starts' = ForcedStartsAfter

ResetCycleLocals ==
  /\ temp_c' = 0 /\ humidity' = 0 /\ dew_c' = 0 /\ now_dt' = 0
  /\ mode' = "none" /\ relay_on' = FALSE /\ manual_target' = FALSE /\ weather' = None
  /\ run_until' = None /\ cooldown_until' = None
  /\ in_forced_run' = FALSE /\ cooldown_active' = FALSE

\* ------------------------------------------------------------ sensor_loop
\* Loop head: the stop signal is seen (while condition or stop_event.wait).
LoopStopSeen ==
  /\ pc = "loop_head"
  /\ stop_event
  /\ pc' = "finally"
  /\ loop_io' = {}
  /\ UNCHANGED <<csVars, ambient_fetcher, clock, stop_event, result, loopLocals,
                 handlerVars, manual_cycles>>
  /\ UNCHANGED sideVars
  /\ Observe(FALSE)

\* while not stop_event.is_set(): result = dht_sensor.read()
LoopSensorRead ==
  /\ pc = "loop_head"
  /\ ~stop_event
  /\ result' \in SensorResults
  /\ pc' = "read"
  /\ loop_io' = {}
  /\ UNCHANGED <<csVars, ambient_fetcher, clock, stop_event, loopLocals, handlerVars,
                 manual_cycles>>
  /\ UNCHANGED sideVars
  /\ Observe(FALSE)

\* Mutant of LoopReadInvalid: a failed read resets the spike filter.
LoopReadInvalid_ResetsFilter ==
  /\ pc = "read"
  /\ ~result.valid
  /\ \E d \in TickSteps :
       /\ clock + d <= MaxTime
       /\ clock' = clock + d
       /\ ambient_fetcher' = Aged(ambient_fetcher, d)
  /\ pc' = "loop_head"
  /\ result' = NoResult
  /\ loop_io' = {"read_failed"}
  /\ humidity_spike_pending' = FALSE
  /\ UNCHANGED <<csVars, stop_event, last_humidity, cycleLocals, handlerVars, manual_cycles>>
  /\ UNCHANGED sideVars
  /\ Observe(FALSE)

\* result.is_valid() is false: the warning, then stop_event.wait(POLL_INTERVAL).
LoopReadInvalid ==
  /\ pc = "read"
  /\ ~result.valid
  /\ \E d \in TickSteps :
       /\ clock + d <= MaxTime
       /\ clock' = clock + d
       /\ ambient_fetcher' = Aged(ambient_fetcher, d)
  /\ pc' = "loop_head"
  /\ result' = NoResult
  /\ loop_io' = {"read_failed"}
  /\ UNCHANGED <<csVars, stop_event, loopLocals, handlerVars, manual_cycles>>
  /\ UNCHANGED sideVars
  /\ Observe(FALSE)

\* The timers a cycle leaves in controller_state: get_timers, clear_forced_run and
\* clear_cooldown on expiry, start_forced_run when can_force_run.
ExpiredRun(cs, n) == IF TimerExpired(cs.auto_run_until, n) THEN None ELSE cs.auto_run_until
ExpiredCooldown(cs, n) ==
  IF TimerExpired(cs.auto_cooldown_until, n) THEN None ELSE cs.auto_cooldown_until
StartsForcedRun(cs, n, w) ==
  can_force_run(n, w, TimerActive(ExpiredRun(cs, n), n), TimerActive(ExpiredCooldown(cs, n), n))
RunAfter(cs, n, w) ==
  IF StartsForcedRun(cs, n, w) THEN Some(ForcedRunUntil(n)) ELSE ExpiredRun(cs, n)
CooldownAfter(cs, n, w) ==
  IF StartsForcedRun(cs, n, w) THEN Some(ForcedCooldownUntil(ForcedRunUntil(n)))
  ELSE ExpiredCooldown(cs, n)

\* A valid result of one poll, up to the decision block: spike filter, dew point,
\* timestamp, controller_state.snapshot(), get_weather / update_weather, get_timers,
\* timer expiry and the forced-run start.  The weather and the timers are written by
\* the loop alone and the other modelled thread reads neither, so the locked calls
\* after snapshot() are taken in the same step.
LoopRead ==
  /\ pc = "read"
  /\ result.valid
  /\ result' = NoResult
  /\ \E d \in TickSteps :
     LET t == result.temperature
         h == result.humidity
     IN
       /\ clock + d <= MaxTime
       /\ clock' = clock + d
       /\ loop_io' = IF SpikeSkipped(last_humidity, humidity_spike_pending, h)
                     THEN {"spike_ignored"}
                     ELSE IF SpikePersisted(last_humidity, humidity_spike_pending, h)
                          THEN {"change_persisted"} ELSE {}
       /\ IF SpikeSkipped(last_humidity, humidity_spike_pending, h)
          THEN /\ humidity_spike_pending' = TRUE
               /\ pc' = "loop_head"
               /\ ambient_fetcher' = Aged(ambient_fetcher, d)
               /\ UNCHANGED <<last_humidity, cycleLocals, controller_state>>
          ELSE /\ humidity_spike_pending' = FALSE
               /\ last_humidity' = Some(h)
               /\ IF h <= 0
                  THEN \* math.log raises ValueError: the loop leaves through finally
                       /\ pc' = "finally"
                       /\ ambient_fetcher' = Aged(ambient_fetcher, d)
                       /\ UNCHANGED <<cycleLocals, controller_state>>
                  ELSE /\ pc' = "decide"
                       /\ temp_c' = t
                       /\ humidity' = h
                       /\ dew_c' = dew_point_c(t, h)
                       /\ now_dt' = clock + d
                       /\ mode' = controller_state.mode
                       /\ relay_on' = controller_state.relay_on
                       /\ manual_target' = controller_state.manual_on
                       /\ \E o \in GetWeatherOutcomes(Aged(ambient_fetcher, d)) :
                            /\ weather' = o.result
                            /\ ambient_fetcher' = o.fetcher
                            /\ cooldown_active' =
                                 TimerActive(ExpiredCooldown(controller_state, now_dt'), now_dt')
                            /\ in_forced_run' =
                                 (\/ StartsForcedRun(controller_state, now_dt', o.result)
                                  \/ TimerActive(ExpiredRun(controller_state, now_dt'), now_dt'))
                            /\ run_until' = RunAfter(controller_state, now_dt', o.result)
                            /\ cooldown_until' = CooldownAfter(controller_state, now_dt', o.result)
                            /\ controller_state' =
                                 [controller_state EXCEPT
                                    !.weather = o.result,
                                    !.auto_run_until = run_until',
                                    !.auto_cooldown_until = cooldown_until']
  /\ UNCHANGED <<pin, gpio_ready, stop_event, handlerVars, manual_cycles>>
  /\ UNCHANGED sideVars
  /\ Observe(FALSE)

\* Mutant of LoopDecide: set_relay is called in every cycle, transition or not.
LoopDecide_AlwaysWrites ==
  /\ pc = "decide"
  /\ LET cmd == RelayCommand(mode, manual_target, relay_on, temp_c, weather, dew_c, now_dt,
                             in_forced_run, cooldown_active)
     IN /\ relay_on' = cmd
        /\ pin' = cmd
        /\ loop_io' = {"gpio"}
        /\ pc' = "update_relay"
  /\ UNCHANGED <<controller_state, gpio_ready, ambient_fetcher, clock, stop_event, result,
                 last_humidity, humidity_spike_pending, temp_c, humidity, dew_c, now_dt,
                 mode, manual_target, weather, run_until, cooldown_until, in_forced_run,
                 cooldown_active, handlerVars, manual_cycles>>
  /\ UNCHANGED sideVars
  /\ Observe(FALSE)

\* The manual / forced-run / hysteresis block up to GPIO.output of set_relay.
LoopDecide ==
  /\ pc = "decide"
  /\ LET cmd == RelayCommand(mode, manual_target, relay_on, temp_c, weather, dew_c, now_dt,
                             in_forced_run, cooldown_active)
     IN IF cmd # relay_on
        THEN /\ relay_on' = cmd
             /\ pin' = cmd
             /\ loop_io' = {"gpio"}
             /\ pc' = "update_relay"
        ELSE /\ pc' = "publish"
             /\ loop_io' = {}
             /\ UNCHANGED <<pin, relay_on>>
  /\ UNCHANGED <<controller_state, gpio_ready, ambient_fetcher, clock, stop_event, result,
                 last_humidity, humidity_spike_pending, temp_c, humidity, dew_c, now_dt,
                 mode, manual_target, weather, run_until, cooldown_until, in_forced_run,
                 cooldown_active, handlerVars, manual_cycles>>
  /\ UNCHANGED sideVars
  /\ Observe(FALSE)

\* controller_state.update_relay of set_relay, then log_event.
LoopUpdateRelay ==
  /\ pc = "update_relay"
  /\ controller_state' = [controller_state EXCEPT !.relay_on = relay_on]
  /\ pc' = "publish"
  /\ loop_io' = {"log_event"}
  /\ UNCHANGED <<pin, gpio_ready, ambient_fetcher, clock, stop_event, result, loopLocals,
                 handlerVars, manual_cycles>>
  /\ UNCHANGED sideVars
  /\ Observe(FALSE)

\* log_reading, live_broker.publish; the cycle is complete.
LoopPublish ==
  /\ pc = "publish"
  /\ pc' = "loop_head"
  /\ ResetCycleLocals
  /\ manual_cycles' = IF hpc = "idle" /\ controller_state.mode = "manual"
                         /\ manual_cycles < 2
                      THEN manual_cycles + 1 ELSE manual_cycles
  /\ loop_io' = {"log_reading", "publish"}
  /\ UNCHANGED <<csVars, ambient_fetcher, clock, stop_event, result, last_humidity,
                 humidity_spike_pending, handlerVars>>
  /\ UNCHANGED sideVars
  /\ Observe(TRUE)

\* finally: set_relay(False), first GPIO.output(RELAY_PIN, LOW).
LoopFinallyOutput ==
  /\ pc = "finally"
  /\ pin' = FALSE
  /\ pc' = "finally_update"
  /\ loop_io' = {"gpio"}
  /\ ResetCycleLocals
  /\ UNCHANGED <<controller_state, gpio_ready, ambient_fetcher, clock, stop_event, result,
                 last_humidity, humidity_spike_pending, handlerVars, manual_cycles>>
  /\ UNCHANGED sideVars
  /\ Observe(FALSE)

\* finally: controller_state.update_relay(False) of set_relay(False).
LoopFinallyUpdate ==
  /\ pc = "finally_update"
  /\ controller_state' = [controller_state EXCEPT !.relay_on = FALSE]
  /\ pc' = "cleanup"
  /\ loop_io' = {}
  /\ UNCHANGED <<pin, gpio_ready, ambient_fetcher, clock, stop_event, result, loopLocals,
                 handlerVars, manual_cycles>>
  /\ UNCHANGED sideVars
  /\ Observe(FALSE)

\* finally: GPIO.cleanup() releases the pin (it floats low with the relay off).
LoopCleanup ==
  /\ pc = "cleanup"
  /\ gpio_ready' = FALSE
  /\ pc' = "stopped"
  /\ loop_io' = {}
  /\ UNCHANGED <<controller_state, pin, ambient_fetcher, clock, stop_event, result,
                 loopLocals, handlerVars, manual_cycles>>
  /\ UNCHANGED sideVars
  /\ Observe(FALSE)

\* main(): the web server returned, stop_event.set().
Shutdown ==
  /\ ~stop_event
  /\ stop_event' = TRUE
  /\ UNCHANGED <<csVars, ambient_fetcher, clock, pc, result, loop_io, loopLocals,
                 handlerVars, manual_cycles>>
  /\ UNCHANGED sideVars
  /\ Observe(FALSE)

\* ------------------------------------------------- api_control (POST)
\* The values api_control resolves from the payload and its first snapshot.
ResolvedMode(p, snap) == IF p.mode = "absent" THEN snap.mode ELSE p.mode
ResolvedManualOn(p, snap) == IF p.manual_on = None THEN snap.manual_on ELSE Val(p.manual_on)

HandlerDone == hpc' = "idle" /\ h_manual_on' = FALSE

\* Mutant of ApiControlPost: a switch to auto also clears the manual target.
ApiControlPost_AutoClearsTarget ==
  /\ hpc = "idle"
  /\ \E p \in Payloads :
       LET m == ResolvedMode(p, controller_state)
           on == ResolvedManualOn(p, controller_state)
       IN CASE m = "auto" ->
                 /\ controller_state' = [controller_state EXCEPT !.mode = "auto",
                                                                 !.manual_on = FALSE]
                 /\ UNCHANGED handlerVars
            [] m = "manual" ->
                 /\ controller_state' = [controller_state EXCEPT !.mode = "manual",
                                                                 !.manual_on = on]
                 /\ hpc' = "h_output"
                 /\ h_manual_on' = on
            [] OTHER -> UNCHANGED <<controller_state, handlerVars>>
  /\ manual_cycles' = 0
  /\ UNCHANGED <<pin, gpio_ready, ambient_fetcher, clock, stop_event, pc, result, loop_io,
                 loopLocals>>
  /\ UNCHANGED sideVars
  /\ Observe(FALSE)

\* request.get_json, controller_state.snapshot(), validation of mode (400 on a bad
\* one), controller_state.set_mode.  mode and manual_on are written by this handler
\* alone, so its snapshot and set_mode are taken in one step.
ApiControlPost ==
  /\ hpc = "idle"
  /\ \E p \in Payloads :
       LET m == ResolvedMode(p, controller_state)
           on == ResolvedManualOn(p, controller_state)
       IN CASE m = "auto" ->
                 /\ controller_state' = [controller_state EXCEPT !.mode = "auto"]
                 /\ UNCHANGED handlerVars
            [] m = "manual" ->
                 /\ controller_state' = [controller_state EXCEPT !.mode = "manual",
                                                                 !.manual_on = on]
                 /\ hpc' = "h_output"
                 /\ h_manual_on' = on
            [] OTHER -> UNCHANGED <<controller_state, handlerVars>>
  /\ manual_cycles' = 0
  /\ UNCHANGED <<pin, gpio_ready, ambient_fetcher, clock, stop_event, pc, result, loop_io,
                 loopLocals>>
  /\ UNCHANGED sideVars
  /\ Observe(FALSE)

\* set_relay(manual_on): GPIO.output(RELAY_PIN, ...), which raises once the pin is released
ApiControlOutput ==
  /\ hpc = "h_output"
  /\ IF gpio_ready
     THEN pin' = h_manual_on /\ hpc' = "h_update_relay" /\ UNCHANGED h_manual_on
     ELSE pin' = pin /\ HandlerDone
  /\ UNCHANGED <<controller_state, gpio_ready, ambient_fetcher, clock, stop_event, pc,
                 result, loop_io, loopLocals, manual_cycles>>
  /\ UNCHANGED sideVars
  /\ Observe(FALSE)

\* set_relay(manual_on): controller_state.update_relay(manual_on), then the response
ApiControlUpdateRelay ==
  /\ hpc = "h_update_relay"
  /\ controller_state' = [controller_state EXCEPT !.relay_on = h_manual_on]
  /\ HandlerDone
  /\ UNCHANGED <<pin, gpio_ready, ambient_fetcher, clock, stop_event, pc, result, loop_io,
                 loopLocals, manual_cycles>>
  /\ UNCHANGED sideVars
  /\ Observe(FALSE)

\* ------------------------------------------------------------- LiveBroker
\* The orders in which list(self._subscribers) can enumerate the set S.
Orderings(S) ==
  { l \in [1..Cardinality(S) -> S] : \A a, b \in 1..Cardinality(S) : a # b => l[a] # l[b] }

\* queue.Queue.put_nowait raises Full, get_nowait raises Empty.
Full(q) == Len(queues[q]) >= QUEUE_MAXSIZE
Empty(q) == queues[q] = <<>>

\* api_live: live_broker.subscribe() makes the connection's queue and adds it.
ApiLiveSubscribe(c) ==
  /\ cpc[c] = "idle"
  /\ subscribers' = subscribers \cup {c}
  /\ queues' = [queues EXCEPT ![c] = <<>>]
  /\ cpc' = [cpc EXCEPT ![c] = "streaming"]
  /\ UNCHANGED <<received, ppc, p_list, p_i, data, published>>
  /\ UNCHANGED <<controlVars, ambient_fetcher, callerVars>>

\* event_stream: q.get() returns the oldest event (it blocks on an empty queue).
ApiLiveGet(c) ==
  /\ cpc[c] = "streaming"
  /\ ~Empty(c)
  /\ received' = [received EXCEPT ![c] = Head(queues[c])]
  /\ queues' = [queues EXCEPT ![c] = Tail(queues[c])]
  /\ UNCHANGED <<subscribers, cpc, ppc, p_list, p_i, data, published>>
  /\ UNCHANGED <<controlVars, ambient_fetcher, callerVars>>

\* event_stream: the client went away (GeneratorExit); unsubscribe(q) in the except clause.
ApiLiveExit(c) ==
  /\ cpc[c] = "streaming"
  /\ subscribers' = subscribers \ {c}
  /\ cpc' = [cpc EXCEPT ![c] = "finally"]
  /\ UNCHANGED <<queues, received, ppc, p_list, p_i, data, published>>
  /\ UNCHANGED <<controlVars, ambient_fetcher, callerVars>>

\* event_stream: unsubscribe(q) again in the finally clause.
ApiLiveFinally(c) ==
  /\ cpc[c] = "finally"
  /\ subscribers' = subscribers \ {c}
  /\ cpc' = [cpc EXCEPT ![c] = "closed"]
  /\ UNCHANGED <<queues, received, ppc, p_list, p_i, data, published>>
  /\ UNCHANGED <<controlVars, ambient_fetcher, callerVars>>

\* publish: the for loop takes the next queue of its list, or the call returns.
PublishAdvance ==
  IF p_i < Len(p_list)
  THEN p_i' = p_i + 1 /\ ppc' = "put" /\ UNCHANGED <<p_list, data>>
  ELSE ppc' = "idle" /\ p_i' = 0 /\ p_list' = <<>> /\ data' = 0

\* sensor_loop calls publish with the cycle's event; publish copies the subscriber
\* set under the lock.
PublishBegin ==
  /\ ppc = "idle"
  /\ published < MaxEvents
  /\ published' = published + 1
  /\ \E l \in Orderings(subscribers) :
       IF l = <<>>
       THEN ppc' = "idle" /\ p_i' = 0 /\ p_list' = <<>> /\ data' = 0
       ELSE ppc' = "put" /\ p_i' = 1 /\ p_list' = l /\ data' = published + 1
  /\ UNCHANGED <<subscribers, queues, cpc, received>>
  /\ UNCHANGED <<controlVars, ambient_fetcher, callerVars>>

\* publish: q.put_nowait(data); on Full the except clause is entered.
PublishPut ==
  /\ ppc = "put"
  /\ LET q == p_list[p_i] IN
       IF Full(q)
       THEN ppc' = "get_nowait" /\ UNCHANGED <<queues, p_list, p_i, data>>
       ELSE queues' = [queues EXCEPT ![q] = Append(@, data)] /\ PublishAdvance
  /\ UNCHANGED <<subscribers, cpc, received, published>>
  /\ UNCHANGED <<controlVars, ambient_fetcher, callerVars>>

\* Mutant of PublishGetNowait: nothing is removed from the full queue.
PublishGetNowait_KeepsOldest ==
  /\ ppc = "get_nowait"
  /\ ppc' = "put_again"
  /\ UNCHANGED <<subscribers, queues, cpc, received, p_list, p_i, data, published>>
  /\ UNCHANGED <<controlVars, ambient_fetcher, callerVars>>

\* publish: q.get_nowait() removes the oldest event; Empty is ignored.
PublishGetNowait ==
  /\ ppc = "get_nowait"
  /\ LET q == p_list[p_i] IN
       queues' = IF Empty(q) THEN queues ELSE [queues EXCEPT ![q] = Tail(@)]
  /\ ppc' = "put_again"
  /\ UNCHANGED <<subscribers, cpc, received, p_list, p_i, data, published>>
  /\ UNCHANGED <<controlVars, ambient_fetcher, callerVars>>

\* publish: the second q.put_nowait(data); on Full the queue is passed over.
PublishPutAgain ==
  /\ ppc = "put_again"
  /\ LET q == p_list[p_i] IN
       queues' = IF Full(q) THEN queues ELSE [queues EXCEPT ![q] = Append(@, data)]
  /\ PublishAdvance
  /\ UNCHANGED <<subscribers, cpc, received, published>>
  /\ UNCHANGED <<controlVars, ambient_fetcher, callerVars>>

\* ------------------------------------------ AmbientWeatherFetcher, by steps
\* An age in seconds after one tick, capped at the cache TTL.
AgeAfterTick(a) == IF a + CacheTick >= AMBIENT_CACHE_SECONDS THEN AMBIENT_CACHE_SECONDS
                   ELSE a + CacheTick

\* time.monotonic() advances.
MonotonicTick ==
  /\ ambient_fetcher.fetch_age < AMBIENT_CACHE_SECONDS
       \/ \E c \in Callers : gpc[c] = "fetching" /\ g_age[c] < AMBIENT_CACHE_SECONDS
  /\ ambient_fetcher' = [ambient_fetcher EXCEPT !.fetch_age = AgeAfterTick(@)]
  /\ g_age' = [c \in Callers |-> IF gpc[c] = "fetching" THEN AgeAfterTick(g_age[c]) ELSE 0]
  /\ UNCHANGED <<configured, gpc, g_via, config_reports>>
  /\ UNCHANGED <<controlVars, brokerVars>>

CallerReturns(c) ==
  /\ gpc' = [gpc EXCEPT ![c] = "idle"]
  /\ g_via' = [g_via EXCEPT ![c] = "none"]
  /\ g_age' = [g_age EXCEPT ![c] = 0]

\* get_weather (directly, or from get_dew_point): now is taken, and a fresh cache
\* is returned; otherwise the caller goes on to _fetch.
GetWeatherEnter(c, via) ==
  /\ gpc[c] = "idle"
  /\ IF CacheFresh(ambient_fetcher)
     THEN UNCHANGED <<gpc, g_via, g_age>>
     ELSE /\ gpc' = [gpc EXCEPT ![c] = "fetching"]
          /\ g_via' = [g_via EXCEPT ![c] = via]
          /\ g_age' = [g_age EXCEPT ![c] = 0]
  /\ UNCHANGED <<ambient_fetcher, configured, config_reports>>
  /\ UNCHANGED <<controlVars, brokerVars>>

\* _fetch raises: always when the coordinates are not configured, possibly when
\* they are (request or payload error). get_weather logs the warning and returns
\* the old value.
FetchRaises(c) ==
  /\ gpc[c] = "fetching"
  /\ config_reports' = IF ~configured /\ config_reports[c] < 2
                        THEN [config_reports EXCEPT ![c] = @ + 1]
                        ELSE config_reports
  /\ CallerReturns(c)
  /\ UNCHANGED <<ambient_fetcher, configured>>
  /\ UNCHANGED <<controlVars, brokerVars>>

\* _fetch returns a snapshot: get_weather stores it with the caller's now.
FetchReturns(c) ==
  /\ gpc[c] = "fetching"
  /\ configured
  /\ \E w \in Weathers :
       ambient_fetcher' = [last_weather |-> Some(w), fetch_age |-> g_age[c]]
  /\ CallerReturns(c)
  /\ UNCHANGED <<configured, config_reports>>
  /\ UNCHANGED <<controlVars, brokerVars>>

\* ------------------------------------------------------------ specification
Next ==
  \/ LoopStopSeen
  \/ LoopSensorRead
  \/ LoopReadInvalid
  \/ LoopRead
  \/ LoopDecide
  \/ LoopUpdateRelay
  \/ LoopPublish
  \/ LoopFinallyOutput
  \/ LoopFinallyUpdate
  \/ LoopCleanup
  \/ Shutdown
  \/ ApiControlPost
  \/ ApiControlOutput
  \/ ApiControlUpdateRelay

Spec == Init /\ [][Next]_vars

\* The live broker with its publisher (sensor_loop) and its connections.
BrokerNext ==
  \/ \E c \in Clients : ApiLiveSubscribe(c)
  \/ \E c \in Clients : ApiLiveGet(c)
  \/ \E c \in Clients : ApiLiveExit(c)
  \/ \E c \in Clients : ApiLiveFinally(c)
  \/ PublishBegin
  \/ PublishPut
  \/ PublishGetNowait
  \/ PublishPutAgain

BrokerSpec == Init /\ [][BrokerNext]_vars

\* The weather cache with concurrent callers, with and without coordinates.
FetcherInit == InitProgram /\ configured \in BOOLEAN

FetcherNext ==
  \/ MonotonicTick
  \/ \E c \in Callers : GetWeatherEnter(c, "get_weather")
  \/ \E c \in Callers : GetWeatherEnter(c, "get_dew_point")
  \/ \E c \in Callers : FetchRaises(c)
  \/ \E c \in Callers : FetchReturns(c)

FetcherSpec == FetcherInit /\ [][FetcherNext]_vars

TypeOK ==
  /\ controller_state.mode \in {"auto", "manual"}
  /\ pin \in BOOLEAN
  /\ clock \in 0..MaxTime

\* ------------------------------------------------------------------ claims
LoopRunning == pc \in {"loop_head", "read", "decide", "update_relay", "publish"}
\* The step in which a cycle takes its relay decision (and writes the pin on a transition).
DecideStep == pc = "decide" /\ pc' # "decide"
\* The step in which a cycle starts: snapshot, weather, timers.
CycleStartStep == pc = "read" /\ pc' = "decide"
\* A forced run starts in this step.
ForcedRunStarts ==
  /\ controller_state'.auto_run_until # None
  /\ controller_state'.auto_run_until # controller_state.auto_run_until
\* now lies in the daylight window of the weather snapshot w.
InDaylightWindow(w, n) ==
  /\ w # None /\ Val(w).sunrise # None /\ Val(w).sunset # None
  /\ Val(Val(w).sunrise) + 30 <= n
  /\ n <= Val(Val(w).sunset) - 30

\* C1: relay_on mirrors the hardware: the pin level and relay_on never disagree, with
\* no set_relay call in progress, from before the end of one control cycle through the
\* whole of the next one.
Claim_C1 == stale_cycles <= 1

\* C2: in a cycle that runs in manual mode the relay decision is manual_target
\* verbatim, whatever the reading, weather, uptime, daylight window and timers are,
\* and a transition to it is written to the pin.
Thm_C2 ==
  [][(DecideStep /\ mode = "manual")
       => (relay_on' = manual_target /\ (relay_on' # relay_on => pin' = manual_target))]_vars

\* C2 witness: a manual cycle has switched the relay on inside the daylight window.
Wit_C2 ==
  /\ pc = "update_relay" /\ mode = "manual" /\ manual_target /\ pin
  /\ InDaylightWindow(weather, now_dt)

\* C3: once a manual override has returned and two control cycles have completed
\* since (so one whole cycle ran after it), the pin equals the requested target for as
\* long as the mode stays manual, no further command arrives and the loop runs.
Claim_C3 ==
  (/\ controller_state.mode = "manual" /\ hpc = "idle" /\ manual_cycles >= 2
   /\ LoopRunning /\ pc = "loop_head")
    => pin = controller_state.manual_on

\* C4: daylight block wins: an auto cycle whose now lies in the daylight window ends
\* with the relay off.
Claim_C4 ==
  (pc \in {"update_relay", "publish"} /\ mode = "auto" /\ InDaylightWindow(weather, now_dt))
    => ~relay_on

\* C5: a cycle that runs in manual mode starts no forced run.
Claim_C5 == [][(CycleStartStep /\ mode' = "manual") => ~ForcedRunStarts]_vars

\* C6: an auto cycle with now < forced_run_until, the cycle that starts the forced run
\* included, ends with the relay on and switches the pin on if the relay was off.
Thm_C6 ==
  [][(DecideStep /\ mode = "auto" /\ TimerActive(controller_state.auto_run_until, now_dt))
       => (relay_on' /\ (~relay_on => pin'))]_vars

\* C6 witness: the forced run keeps the relay on while the hysteresis OFF condition holds.
Wit_C6 ==
  /\ pc = "publish" /\ mode = "auto" /\ relay_on
  /\ TimerActive(controller_state.auto_run_until, now_dt)
  /\ threshold_temp(temp_c) > baseline_dew(weather, dew_c) + HYSTERESIS_C

\* C7: a forced run starts in a cycle only if uptime >= 15 minutes, ambient
\* temperature and dew point are known and at most FORCE_RUN_TEMP_DIFF_C apart, no
\* forced run and no cooldown is active and the daylight block is not active; the cycle
\* goes on to its decision.
Thm_C7 ==
  [][ForcedRunStarts
       => (/\ now_dt' - startup_time >= 15
           /\ weather' # None
           /\ Val(weather').temperature_c - Val(weather').dew_point_c <= FORCE_RUN_TEMP_DIFF_C
           /\ ~TimerActive(controller_state.auto_run_until, now_dt')
           /\ ~TimerActive(controller_state.auto_cooldown_until, now_dt')
           /\ ~InDaylightWindow(weather', now_dt')
           /\ pc' = "decide")]_vars

\* C7 witness: a forced run has just been started.
Wit_C7 ==
  /\ pc = "decide"
  /\ controller_state.auto_run_until = Some(now_dt + FORCE_RUN_DURATION)

\* C8: when forced_run_until is present, cooldown_until is present and equals
\* forced_run_until + FORCE_RUN_COOLDOWN, so cooldown_until >= forced_run_until; a
\* start writes forced_run_until = now + FORCE_RUN_DURATION together with it.
TimersPaired ==
  controller_state.auto_run_until # None
    => (/\ controller_state.auto_cooldown_until # None
        /\ Val(controller_state.auto_cooldown_until)
             = Val(controller_state.auto_run_until) + FORCE_RUN_COOLDOWN
        /\ Val(controller_state.auto_cooldown_until) >= Val(controller_state.auto_run_until))
Thm_C8 ==
  /\ []TimersPaired
  /\ [][ForcedRunStarts
          => controller_state'.auto_run_until = Some(now_dt' + FORCE_RUN_DURATION)]_vars

\* C8 witness: both timers are stored and a handler is about to read the state.
Wit_C8 ==
  /\ controller_state.auto_run_until # None
  /\ controller_state.auto_cooldown_until # None
  /\ hpc = "idle"

\* C9: a stored timer is never replaced or cleared before it has expired, and a forced
\* run starts only when neither stored timer is active.
Thm_C9 ==
  [][/\ (controller_state.auto_run_until # None
           /\ controller_state'.auto_run_until # controller_state.auto_run_until)
          => TimerExpired(controller_state.auto_run_until, now_dt')
     /\ (controller_state.auto_cooldown_until # None
           /\ controller_state'.auto_cooldown_until # controller_state.auto_cooldown_until)
          => TimerExpired(controller_state.auto_cooldown_until, now_dt')
     /\ ForcedRunStarts
          => (/\ ~TimerActive(controller_state.auto_run_until, now_dt')
              /\ ~TimerActive(controller_state.auto_cooldown_until, now_dt'))]_vars

\* C9 witness: a cycle runs during the cooldown of a forced run with the start
\* conditions otherwise met.
Wit_C9 ==
  /\ pc = "decide"
  /\ controller_state.auto_run_until = None
  /\ TimerActive(controller_state.auto_cooldown_until, now_dt)
  /\ weather # None
  /\ Val(weather).temperature_c - Val(weather).dew_point_c <= FORCE_RUN_TEMP_DIFF_C
  /\ ~InDaylightWindow(weather, now_dt)

\* C10: in an auto cycle with no forced run active the relay goes from off to on only
\* if threshold_temp < baseline_dew, uptime >= 15 minutes, the daylight block is not
\* active and no cooldown is active; with the ON condition met and a gate closed the
\* relay stays off.
AutoNoForcedRun ==
  DecideStep /\ mode = "auto" /\ ~TimerActive(controller_state.auto_run_until, now_dt)
GatesOpen ==
  /\ now_dt - startup_time >= 15
  /\ ~InDaylightWindow(weather, now_dt)
  /\ ~TimerActive(controller_state.auto_cooldown_until, now_dt)
Thm_C10 ==
  [][AutoNoForcedRun
       => (/\ (~relay_on /\ relay_on')
                => (threshold_temp(temp_c) < baseline_dew(weather, dew_c) /\ GatesOpen)
           /\ (~relay_on /\ threshold_temp(temp_c) < baseline_dew(weather, dew_c)
                 /\ ~GatesOpen)
                => (~relay_on' /\ pin' = pin))]_vars

\* C10 witness: the ON condition holds in an auto cycle during cooldown and the relay
\* has stayed off.
Wit_C10 ==
  /\ pc = "publish" /\ mode = "auto" /\ ~relay_on /\ ~pin
  /\ ~TimerActive(controller_state.auto_run_until, now_dt)
  /\ TimerActive(controller_state.auto_cooldown_until, now_dt)
  /\ now_dt - startup_time >= 15
  /\ threshold_temp(temp_c) < baseline_dew(weather, dew_c)

\* threshold_temp of the cycle lies strictly inside the hysteresis band.
InBand ==
  /\ baseline_dew(weather, dew_c) < threshold_temp(temp_c)
  /\ threshold_temp(temp_c) < baseline_dew(weather, dew_c) + HYSTERESIS_C

\* C11 as stated: in auto mode a cycle whose threshold_temp lies strictly between
\* baseline_dew and baseline_dew + HYSTERESIS_C never changes the relay state.
Claim_C11 ==
  [][(DecideStep /\ mode = "auto" /\ InBand)
       => (relay_on' = relay_on /\ "gpio" \notin loop_io')]_vars

\* C11 amended: in auto mode a cycle whose threshold_temp lies strictly between
\* baseline_dew and baseline_dew + HYSTERESIS_C, and in which no forced run is active,
\* leaves the relay state as it found it and writes nothing to the hardware.
Thm_C11 ==
  [][(DecideStep /\ mode = "auto" /\ InBand
        /\ ~TimerActive(controller_state.auto_run_until, now_dt))
       => (relay_on' = relay_on /\ "gpio" \notin loop_io' /\ pin' = pin)]_vars

\* C11 witness: an auto cycle inside the band, no forced run active, has held the relay on.
Wit_C11 ==
  /\ pc = "publish" /\ mode = "auto" /\ InBand /\ relay_on /\ loop_io = {}
  /\ ~TimerActive(controller_state.auto_run_until, now_dt)

\* The two scenarios of the hysteresis baseline, for an auto cycle that found the relay off.
AmbientOverrides ==
  /\ weather # None
  /\ threshold_temp(temp_c) < dew_c
  /\ threshold_temp(temp_c) > Val(weather).dew_point_c
  /\ Val(weather).temperature_c - Val(weather).dew_point_c > FORCE_RUN_TEMP_DIFF_C
EnclosureFallback ==
  /\ weather = None
  /\ threshold_temp(temp_c) < dew_c
  /\ now_dt - startup_time >= 15

\* C12 as stated: an auto cycle that found the relay off keeps it off when threshold_temp
\* is below the enclosure dew point but above a known ambient dew point (ambient spread
\* above FORCE_RUN_TEMP_DIFF_C), and switches it on when there is no ambient data,
\* threshold_temp is below the enclosure dew point and uptime >= 15 minutes.
Claim_C12 ==
  [][(DecideStep /\ mode = "auto" /\ ~relay_on)
       => (/\ AmbientOverrides => ~relay_on'
           /\ EnclosureFallback => relay_on')]_vars

\* C12 amended: the same, the first scenario holding when no forced run is active (a
\* forced run started under an earlier weather snapshot still switches the relay on).
Thm_C12 ==
  [][(DecideStep /\ mode = "auto" /\ ~relay_on)
       => (/\ (AmbientOverrides /\ ~TimerActive(controller_state.auto_run_until, now_dt))
                => (~relay_on' /\ pin' = pin)
           /\ EnclosureFallback => (relay_on' /\ pin'))]_vars

\* C12 witness: the ambient dew point has overridden the enclosure's: the relay stayed off
\* with threshold_temp below the enclosure dew point, after the warm-up.
Wit_C12 ==
  /\ pc = "publish" /\ mode = "auto" /\ ~relay_on /\ loop_io = {} /\ AmbientOverrides
  /\ ~TimerActive(controller_state.auto_run_until, now_dt)
  /\ ~TimerActive(controller_state.auto_cooldown_until, now_dt)
  /\ now_dt - startup_time >= 15

\* C13: once sensor_loop has returned (stop seen at the loop head or in the poll wait, or
\* an exception inside a cycle), the last hardware command was OFF and relay_on is false,
\* the pin having been released after that command.
Claim_C13 == pc = "stopped" => (~pin /\ ~controller_state.relay_on /\ ~gpio_ready)

\* The loop's step that handles the result of dht_sensor.read().
PollStep == pc = "read" /\ pc' # "read"
\* The result is a valid reading whose humidity is more than 15 points from last_humidity.
LargeJump == result.valid /\ last_humidity # None /\ change_pct(last_humidity, result.humidity) > 15

\* C14: a poll whose valid reading is more than 15 points from last_humidity, no spike
\* pending, makes no relay decision (no hardware write, relay_on as it was), updates no
\* timer (no expiry, no forced-run start), writes no event or reading log and publishes
\* nothing: it sets the pending flag, leaves last_humidity unchanged and waits for the
\* next poll.
Thm_C14 ==
  [][(PollStep /\ LargeJump /\ ~humidity_spike_pending)
       => (/\ pc' = "loop_head"
           /\ UNCHANGED <<controller_state, pin, last_humidity>>
           /\ humidity_spike_pending'
           /\ loop_io' = {"spike_ignored"})]_vars

\* C14 witness: a spike was skipped at a time when the stored forced run had run out:
\* the timer is still stored.
Wit_C14 ==
  /\ pc = "loop_head" /\ loop_io = {"spike_ignored"} /\ humidity_spike_pending
  /\ TimerExpired(controller_state.auto_run_until, clock)

\* C15: the filter skips a valid reading exactly when it is more than 15 points from
\* last_humidity and no spike is pending, and the skip keeps last_humidity; so a reading
\* that follows a skipped one is always accepted (never two rejections in a row): a
\* second large jump is adopted as the new baseline, and a reading back within 15 points
\* of the baseline kept through the glitch is accepted against that baseline; accepting
\* clears the pending flag.
Thm_C15 ==
  [][(PollStep /\ result.valid)
       => (/\ (pc' = "loop_head") <=> (LargeJump /\ ~humidity_spike_pending)
           /\ (pc' = "loop_head")
                => (humidity_spike_pending' /\ last_humidity' = last_humidity)
           /\ (pc' # "loop_head")
                => (/\ ~humidity_spike_pending'
                    /\ last_humidity' = Some(result.humidity)
                    /\ ("change_persisted" \in loop_io')
                          <=> (LargeJump /\ humidity_spike_pending)))]_vars

\* C15 witness: a sustained change has been adopted: the cycle runs on a reading that
\* was accepted as the new baseline after a skipped one.
Wit_C15 ==
  /\ pc = "decide" /\ loop_io = {"change_persisted"}
  /\ last_humidity = Some(humidity) /\ ~humidity_spike_pending

\* The relay is already where the branch the cycle takes commands it.
InCommandedPosition ==
  \/ mode = "manual" /\ relay_on = manual_target
  \/ mode = "auto" /\ TimerActive(controller_state.auto_run_until, now_dt) /\ relay_on
  \/ /\ mode = "auto"
     /\ ~TimerActive(controller_state.auto_run_until, now_dt)
     /\ \/ relay_on /\ ~(threshold_temp(temp_c) > baseline_dew(weather, dew_c) + HYSTERESIS_C)
        \/ ~relay_on /\ ~(threshold_temp(temp_c) < baseline_dew(weather, dew_c) /\ GatesOpen)

\* C16: a cycle writes to the hardware only on an actual transition, and then the new
\* level; with the relay already in the commanded position (manual target reached,
\* forced run with the relay on, hysteresis holding) it writes nothing and leaves the
\* relay state alone, so the same reading, weather and state fed again write nothing.
Thm_C16 ==
  [][DecideStep
       => (/\ ("gpio" \in loop_io') <=> (relay_on' # relay_on)
           /\ (relay_on' # relay_on) => pin' = relay_on'
           /\ InCommandedPosition
                => (relay_on' = relay_on /\ pin' = pin /\ loop_io' = {}
                    /\ pc' = "publish"))]_vars

\* C16 witness: a cycle in a forced run found the relay on and wrote nothing.
Wit_C16 ==
  /\ pc = "publish" /\ loop_io = {} /\ mode = "auto" /\ relay_on /\ pin
  /\ TimerActive(controller_state.auto_run_until, now_dt)

\* C17: the snapshot a cycle takes never shows an operator command half applied: mode
\* manual and the new manual_on stored while relay_on still holds the value from before
\* the command.
Claim_C17 ==
  [][CycleStartStep
       => ~(/\ hpc \in {"h_output", "h_update_relay"}
            /\ mode' = "manual" /\ manual_target' = h_manual_on
            /\ relay_on' # manual_target')]_vars

\* C18: the control loop is left only after the stop signal: an error of the dew-point
\* computation does not terminate it.
Claim_C18 == ~LoopRunning => stop_event

\* C19: a failed sensor read changes no ControllerState field, writes nothing to the
\* hardware, the event log, the reading log or the live broker (only the warning),
\* leaves the spike-filter state alone, and the loop goes on to the next poll.
Thm_C19 ==
  [][(PollStep /\ ~result.valid)
       => (/\ pc' = "loop_head"
           /\ UNCHANGED <<controller_state, pin, gpio_ready, last_humidity,
                          humidity_spike_pending>>
           /\ loop_io' = {"read_failed"})]_vars

\* C19 witness: a read failed while a spike was pending and the loop is at its head
\* again, not stopped, the flag still set.
Wit_C19 ==
  /\ pc = "loop_head" /\ loop_io = {"read_failed"} /\ ~stop_event
  /\ humidity_spike_pending /\ last_humidity # None

\* C20: get_weather in a cycle: with the last successful fetch younger than the TTL
\* the memoized snapshot is returned and nothing is fetched; otherwise either a refresh
\* succeeds and its snapshot is returned and cached, or it fails and the last known
\* snapshot (stale, or none) is returned with the cached value and the time since the last
\* fetch left as they were; in every case the cycle goes on to its decision.
Thm_C20 ==
  [][CycleStartStep
       => LET f == Aged(ambient_fetcher, clock' - clock)
          IN /\ pc' = "decide"
             /\ controller_state'.weather = weather'
             /\ IF f.last_weather # None /\ f.fetch_age < 600
                THEN weather' = f.last_weather /\ ambient_fetcher' = f
                ELSE \/ /\ weather' # None
                        /\ ambient_fetcher' = [last_weather |-> weather', fetch_age |-> 0]
                     \/ /\ weather' = ambient_fetcher.last_weather
                        /\ ambient_fetcher' = f]_vars

\* C20 witness: a refresh failed and the cycle decides on the stale snapshot, which is
\* still the cached one.
Wit_C20 ==
  /\ pc = "decide" /\ weather # None /\ weather = ambient_fetcher.last_weather
  /\ ambient_fetcher.fetch_age >= 600

\* log_event is written in this step (the loop writes it with update_relay of a
\* transition; no other code path calls it).
LogEventWritten == pc = "update_relay" /\ pc' = "publish" /\ "log_event" \in loop_io'

\* C22: every change of relay_on between ON and OFF, by an auto, forced-run or manual
\* cycle, by an operator command or by the shutdown force-off, is accompanied by a
\* log_event record.
Claim_C22 ==
  [][controller_state'.relay_on # controller_state.relay_on => LogEventWritten]_vars

\* The cycle that starts meets every condition of a forced-run start except the warm-up.
StartConditionsButWarmup ==
  /\ weather' # None
  /\ Val(weather').temperature_c - Val(weather').dew_point_c <= FORCE_RUN_TEMP_DIFF_C
  /\ ~InDaylightWindow(weather', now_dt')
  /\ ~TimerActive(controller_state.auto_run_until, now_dt')
  /\ ~TimerActive(controller_state.auto_cooldown_until, now_dt')

\* C25 as stated, its forced-run part: the warm-up does not block a forced-run start: a
\* cycle at uptime < 15 minutes whose other start conditions hold starts a forced run.
Claim_C25 ==
  [][(CycleStartStep /\ now_dt' - startup_time < 15 /\ StartConditionsButWarmup)
       => ForcedRunStarts]_vars

\* C25 amended: at uptime < 15 minutes an auto cycle never switches the relay from off to
\* on and no forced run starts, while an auto cycle that finds the relay on with
\* threshold_temp > baseline_dew + HYSTERESIS_C still switches it off.
Thm_C25 ==
  [][/\ (DecideStep /\ mode = "auto" /\ now_dt - startup_time < 15)
          => (/\ ~relay_on => ~relay_on'
              /\ (relay_on /\ ~TimerActive(controller_state.auto_run_until, now_dt)
                    /\ threshold_temp(temp_c) > baseline_dew(weather, dew_c) + HYSTERESIS_C)
                   => (~relay_on' /\ ~pin'))
     /\ (CycleStartStep /\ now_dt' - startup_time < 15) => ~ForcedRunStarts]_vars

\* C25 witness: during the warm-up an auto cycle has switched the relay off.
Wit_C25 ==
  /\ pc = "update_relay" /\ mode = "auto" /\ ~relay_on /\ ~pin /\ loop_io = {"gpio"}
  /\ now_dt - startup_time < 15
  /\ threshold_temp(temp_c) > baseline_dew(weather, dew_c) + HYSTERESIS_C

\* C26: while the stored mode is manual the control loop never writes a level other
\* than manual_on to the relay pin.
Claim_C26 ==
  [][(pc = "decide" /\ "gpio" \in loop_io' /\ controller_state.mode = "manual")
       => pin' = controller_state.manual_on]_vars

\* C27: an auto cycle that finds the relay on with no forced run active (expired, or
\* none) keeps it on, cooldown or not, unless threshold_temp > baseline_dew +
\* HYSTERESIS_C, and then switches it off; the cooldown blocks only OFF-to-ON and
\* forced-run starts.
Thm_C27 ==
  [][/\ (DecideStep /\ mode = "auto" /\ relay_on
           /\ ~TimerActive(controller_state.auto_run_until, now_dt))
          => IF threshold_temp(temp_c) > baseline_dew(weather, dew_c) + HYSTERESIS_C
             THEN ~relay_on' /\ ~pin'
             ELSE relay_on' /\ pin' = pin /\ "gpio" \notin loop_io'
     /\ (DecideStep /\ mode = "auto" /\ ~relay_on
           /\ TimerActive(controller_state.auto_cooldown_until, now_dt)
           /\ ~TimerActive(controller_state.auto_run_until, now_dt))
          => ~relay_on'
     /\ (CycleStartStep /\ TimerActive(controller_state.auto_cooldown_until, now_dt'))
          => ~ForcedRunStarts]_vars

\* C27 witness: the forced run has expired and was cleared, the cooldown is running and
\* an auto cycle has kept the relay on.
Wit_C27 ==
  /\ pc = "publish" /\ mode = "auto" /\ relay_on /\ pin /\ loop_io = {}
  /\ controller_state.auto_run_until = None
  /\ TimerActive(controller_state.auto_cooldown_until, now_dt)

\* C28: two consecutive forced-run starts are at least FORCE_RUN_DURATION +
\* FORCE_RUN_COOLDOWN (90 minutes) apart, and a cycle at or after the stored
\* cooldown_until whose start conditions hold starts a new forced run.
Thm_C28 ==
  [][/\ (ForcedRunStarts /\ forced_starts # <<>>)
          => (/\ now_dt' - forced_starts[Len(forced_starts)]
                   >= FORCE_RUN_DURATION + FORCE_RUN_COOLDOWN
              /\ now_dt' - forced_starts[Len(forced_starts)] >= 90)
     /\ (/\ CycleStartStep
         /\ TimerExpired(controller_state.auto_cooldown_until, now_dt')
         /\ now_dt' - startup_time >= 15
         /\ weather' # None
         /\ Val(weather').temperature_c - Val(weather').dew_point_c <= FORCE_RUN_TEMP_DIFF_C
         /\ ~InDaylightWindow(weather', now_dt'))
          => ForcedRunStarts]_vars

\* C28 witness: a second forced run has been started.
Wit_C28 == pc = "decide" /\ Len(forced_starts) = 2 /\ forced_starts[2] = now_dt

\* A step of the POST /api/control handler (every step of the loop moves pc).
HandlerStep == pc' = pc /\ stop_event' = stop_event

\* C29: no step of POST /api/control changes the timers or the cached weather; a request
\* that resolves to auto writes nothing to the hardware and leaves relay_on and manual_on
\* as they were, with no set_relay to follow.
Thm_C29 ==
  [][HandlerStep
       => (/\ UNCHANGED <<ambient_fetcher>>
           /\ controller_state'.auto_run_until = controller_state.auto_run_until
           /\ controller_state'.auto_cooldown_until = controller_state.auto_cooldown_until
           /\ controller_state'.weather = controller_state.weather
           /\ (hpc = "idle" /\ controller_state'.mode = "auto")
                => (/\ pin' = pin
                    /\ controller_state'.relay_on = controller_state.relay_on
                    /\ controller_state'.manual_on = controller_state.manual_on
                    /\ hpc' = "idle"))]_vars

\* C29 witness: after a switch from manual ON to auto the relay is still on, the manual
\* target still stored and the timers and weather are in place.
Wit_C29 ==
  /\ hpc = "idle" /\ controller_state.mode = "auto" /\ controller_state.manual_on
  /\ controller_state.relay_on /\ pin
  /\ controller_state.auto_cooldown_until # None /\ controller_state.weather # None

\* ------------------------------------------------- claims on the live broker
Range(l) == { l[i] : i \in 1..Len(l) }
LastOf(l) == l[Len(l)]

\* No queue holds more than its capacity.
QueuesBounded == \A q \in Clients : Len(queues[q]) <= QUEUE_MAXSIZE

\* A publish call that has begun can always take its next step.
PublishNeverBlocks ==
  ppc # "idle" => ENABLED (PublishPut \/ PublishGetNowait \/ PublishPutAgain)

\* A step of publish.
PublishStep == ppc # "idle" /\ (ppc' # ppc \/ p_i' # p_i)
\* The step in which a publish call begins, and the one in which it returns.
PublishBegins == ppc = "idle" /\ ppc' # "idle"
PublishReturns == ppc # "idle" /\ ppc' = "idle"

\* What a step of publish does to the queues: it touches only the queue it is at; the
\* get_nowait step, taken only after put_nowait found that queue full, removes its oldest
\* pending event and nothing else; every other step removes nothing, and what it adds is
\* the call's event, at the end.
DropOldestStep ==
  PublishStep =>
    LET q == p_list[p_i] IN
      /\ \A o \in Clients \ {q} : queues'[o] = queues[o]
      /\ IF ppc = "get_nowait"
         THEN queues'[q] = IF queues[q] = <<>> THEN <<>> ELSE Tail(queues[q])
         ELSE queues'[q] = queues[q] \/ queues'[q] = Append(queues[q], data)

\* After the step, the event e is the last element of each queue of S, or that queue's
\* connection has already taken it.
NewestLastIn(S, e) ==
  \A q \in S : (queues'[q] # <<>> /\ LastOf(queues'[q]) = e) \/ received'[q] = e

\* C21 as stated: queues hold at most 5 events, publish never blocks, a full queue loses
\* exactly its oldest pending event, and when publish(e) returns e is the last element of
\* every queue then subscribed, unless its connection has consumed it.
Claim_C21 ==
  /\ [](QueuesBounded /\ PublishNeverBlocks)
  /\ [][DropOldestStep /\ (PublishReturns => NewestLastIn(subscribers', data))]_vars

\* C21 amended: as stated, for every queue that was subscribed when the call began (the
\* queues of the list publish copied), also when connections dequeue, subscribe and
\* unsubscribe during the call.
Thm_C21 ==
  /\ [](QueuesBounded /\ PublishNeverBlocks)
  /\ [][DropOldestStep /\ (PublishReturns => NewestLastIn(Range(p_list), data))]_vars

\* C21 witness: a connection took event 1, then its full queue lost event 2 to make room
\* for the newest event, which is now its last element.
Wit_C21 ==
  /\ ppc = "idle"
  /\ \E q \in subscribers :
       /\ Len(queues[q]) = QUEUE_MAXSIZE
       /\ received[q] = 1
       /\ Head(queues[q]) = 3
       /\ LastOf(queues[q]) = published

\* unsubscribe(q) has returned for the queue of connection q.
UnsubscribeReturned(q) == cpc[q] \in {"finally", "closed"}

\* C30: once unsubscribe(q) has returned nothing more is put on q, and every queue
\* subscribed when a publish call begins is in the list the call serves and has received
\* the call's event when it returns.
Claim_C30 ==
  [][/\ \A q \in Clients : UnsubscribeReturned(q) => Len(queues'[q]) <= Len(queues[q])
     /\ PublishBegins => subscribers \subseteq Range(p_list')
     /\ PublishReturns => NewestLastIn(Range(p_list), data)]_vars

\* ------------------------------------------------ claims on the weather cache
\* The callers inside _fetch: the refreshes in flight.
InFlight == { c \in Callers : gpc[c] = "fetching" }

\* C23: at most one refresh of the weather cache is in flight at any time.
Claim_C23 == Cardinality(InFlight) <= 1

\* C24: with the coordinates missing, the configuration error is reported once, and not
\* again by the same caller on a later poll.
Claim_C24 == ~configured => \A c \in Callers : config_reports[c] <= 1

====
